---- MODULE Spec2Model ----
(***************************************************************************)
(* Model of the composite/array decoders and JSON encoders of main.go.     *)
(*                                                                         *)
(* A Go string is a sequence of tokens.  The delimiter characters of the   *)
(* composite and array grammars are single tokens; a payload without any   *)
(* delimiter in it (a timestamp text, a UUID text, a role) is one token.   *)
(* One destination value is constructed (kind says of which type) and the  *)
(* Scan / MarshalJSON methods are called on it any number of times.        *)
(***************************************************************************)
EXTENDS Integers, Sequences, FiniteSets, TLC

VARIABLES kind, tm, m, uo, uos, op, src, pre, ret, out

vars == <<kind, tm, m, uo, uos, op, src, pre, ret, out>>

(* ---------------------------- bounds ----------------------------------- *)
\* longest over-long composite fed to a decoder, in fields beyond its arity
MaxExtra == 1
\* most elements of one array literal
MaxElems == 2
\* most entities the array destination is let grow to
MaxDest == 3

(* ---------------------------- characters ------------------------------- *)
LP == "("
RP == ")"
COMMA == ","
DQ == "\""
BS == "\\"
LB == "{"
RB == "}"
NULL == "NULL"

(* ---------------------------- strings package --------------------------- *)
RECURSIVE TrimLeft(_, _)
TrimLeft(s, cutset) ==
    IF s # <<>> /\ Head(s) \in cutset THEN TrimLeft(Tail(s), cutset) ELSE s

RECURSIVE TrimRight(_, _)
TrimRight(s, cutset) ==
    IF s # <<>> /\ s[Len(s)] \in cutset
    THEN TrimRight(SubSeq(s, 1, Len(s) - 1), cutset)
    ELSE s

\* strings.Trim(s, cutset): every leading and trailing character of cutset
Trim(s, cutset) == TrimRight(TrimLeft(s, cutset), cutset)

\* strings.Split(s, sep); Split("", sep) is the one-element list [""]
RECURSIVE Split(_, _)
Split(s, sep) ==
    IF \E i \in 1..Len(s) : s[i] = sep
    THEN LET i == CHOOSE k \in 1..Len(s) :
                     s[k] = sep /\ \A j \in 1..(k - 1) : s[j] # sep
         IN  <<SubSeq(s, 1, i - 1)>> \o Split(SubSeq(s, i + 1, Len(s)), sep)
    ELSE <<s>>

\* strings.Join(parts, sep)
RECURSIVE Join(_, _)
Join(parts, sep) ==
    IF parts = <<>> THEN <<>>
    ELSE IF Len(parts) = 1 THEN parts[1]
    ELSE parts[1] \o <<sep>> \o Join(Tail(parts), sep)

\* parts[i] = strings.Trim(part, `"`) for every part
TrimQuotes(parts) == [i \in 1..Len(parts) |-> Trim(parts[i], {DQ})]

(* ---------------------------- errors ------------------------------------ *)
Ok == [status |-> "ok", err |-> <<>>]
Error(msg) == [status |-> "error", err |-> <<msg>>]
\* errors.Wrap(err, msg)
Wrap(r, msg) == [status |-> "error", err |-> <<msg>> \o r.err]
\* a run-time panic (index or slice bounds out of range)
Panic(msg) == [status |-> "panic", err |-> <<msg>>]

ErrInvalidType == "invalid type"

(* ---------------------------- cell values ------------------------------- *)
\* the interface{} handed to Scan: text, bytes, or some other driver value
Text(s) == [type |-> "string", val |-> s]
Bytes(s) == [type |-> "[]byte", val |-> s]
Int64Cell == [type |-> "int64", val |-> <<>>]

ScanToString(x) ==
    IF x.type \in {"string", "[]byte"}
    THEN [s |-> x.val, ret |-> Ok]
    ELSE [s |-> <<>>, ret |-> Error(ErrInvalidType)]

(* ---------------------------- time.Time --------------------------------- *)
\* an instant: calendar year and day of the year, UTC midnight
Instant(y, d) == [year |-> y, day |-> d]
\* time.Time{}: January 1, year 1, 00:00:00 UTC
ZeroTime == Instant(1, 1)
IsZero(t) == t = ZeroTime

\* timestamp texts of the database, each one token
TsZero == "0001-01-01 00:00:00"
TsA == "2024-01-01 00:00:00"
TsB == "2024-01-02 00:00:00"
TsBC == "0044-03-15 00:00:00 BC"
TsTexts == {TsZero, TsA, TsB, TsBC}

\* the instant a timestamp text denotes (44 BC is ISO year -43)
PgInstant(t) ==
    CASE t = TsZero -> ZeroTime
      [] t = TsA -> Instant(2024, 1)
      [] t = TsB -> Instant(2024, 2)
      [] t = TsBC -> Instant(-43, 74)

\* pq.ParseTimestamp(time.UTC, str).  The time returned together with an
\* error is taken to be time.Time{}; the callers store it in the
\* destination before they look at the error
ParseTimestamp(str) ==
    IF Len(str) = 1 /\ str[1] \in TsTexts
    THEN [t |-> PgInstant(str[1]), ok |-> TRUE]
    ELSE [t |-> ZeroTime, ok |-> FALSE]

\* time.Time.MarshalJSON: RFC 3339 text; fails outside years 0..9999
JSONYearOk(t) == t.year >= 0 /\ t.year <= 9999
RFC3339(t) ==
    CASE t = ZeroTime -> "0001-01-01T00:00:00Z"
      [] t = Instant(2024, 1) -> "2024-01-01T00:00:00Z"
      [] t = Instant(2024, 2) -> "2024-01-02T00:00:00Z"
      [] OTHER -> "unrepresentable"

(* ---------------------------- uuid.UUID --------------------------------- *)
NilUUID == "nil"
UuidNil == "00000000-0000-0000-0000-000000000000"
UuidA == "aaaaaaaa-aaaa-4aaa-8aaa-aaaaaaaaaaaa"
UuidB == "bbbbbbbb-bbbb-4bbb-8bbb-bbbbbbbbbbbb"
UrnUuidB == "urn:uuid:bbbbbbbb-bbbb-4bbb-8bbb-bbbbbbbbbbbb"
UuidTexts == {UuidNil, UuidA, UuidB, UrnUuidB}

\* uuid.Parse: the 16-byte value (written in canonical form), nil when the
\* text is not exactly one UUID
uuidParse(str) ==
    IF Len(str) = 1 /\ str[1] \in UuidTexts
    THEN (IF str[1] = UrnUuidB THEN UuidB ELSE str[1])
    ELSE NilUUID

(* ---------------------------- TimeMetadata ------------------------------ *)
\* a *time.Time is the empty sequence (nil) or a one-element sequence
ZeroTM == [CreatedAt |-> ZeroTime, UpdatedAt |-> ZeroTime, DeletedAt |-> <<>>]

NoJSON == [status |-> "none", obj |-> {}]
JSONNull == [status |-> "null", obj |-> {}]
JSONError == [status |-> "error", obj |-> {}]
JSONObject(pairs) == [status |-> "object", obj |-> pairs]
Keys(o) == {p[1] : p \in o.obj}
Value(o, k) == (CHOOSE p \in o.obj : p[1] = k)[2]

\* TimeMetadata.MarshalJSON with the created_at and updated_at keys exchanged
TimeMetadataMarshalJSONSwapped(t) ==
    LET mm == (IF ~IsZero(t.CreatedAt) THEN {<<"updated_at", t.CreatedAt>>} ELSE {})
              \cup (IF ~IsZero(t.UpdatedAt) THEN {<<"created_at", t.UpdatedAt>>} ELSE {})
              \cup (IF t.DeletedAt # <<>> /\ ~IsZero(t.DeletedAt[1])
                    THEN {<<"deleted_at", t.DeletedAt[1]>>} ELSE {})
    IN  IF mm = {} THEN JSONNull
        ELSE IF \E p \in mm : ~JSONYearOk(p[2]) THEN JSONError
        ELSE JSONObject({<<p[1], RFC3339(p[2])>> : p \in mm})

\* TimeMetadata.MarshalJSON (tm is never a nil pointer here): zero times
\* are left out, nothing left gives nil, json.Marshal encodes the rest
TimeMetadataMarshalJSON(t) ==
    LET mm == (IF ~IsZero(t.CreatedAt) THEN {<<"created_at", t.CreatedAt>>} ELSE {})
              \cup (IF ~IsZero(t.UpdatedAt) THEN {<<"updated_at", t.UpdatedAt>>} ELSE {})
              \cup (IF t.DeletedAt # <<>> /\ ~IsZero(t.DeletedAt[1])
                    THEN {<<"deleted_at", t.DeletedAt[1]>>} ELSE {})
    IN  IF mm = {} THEN JSONNull
        ELSE IF \E p \in mm : ~JSONYearOk(p[2]) THEN JSONError
        ELSE JSONObject({<<p[1], RFC3339(p[2])>> : p \in mm})

TimeMetadataScan1(t, x) ==
    LET s == ScanToString(x) IN
    IF s.ret.status # "ok"
    THEN [tm |-> t, ret |-> Wrap(s.ret, "invalid type for TimeMetadata scan")]
    ELSE
    LET raw == Split(Trim(s.s, {LP, RP}), COMMA) IN
    IF Len(raw) # 3
    THEN [tm |-> t, ret |-> Error("invalid count for TimeMetadata scan")]
    ELSE
    LET parts == TrimQuotes(raw)
        c == ParseTimestamp(parts[1])
        t1 == [t EXCEPT !.CreatedAt = c.t]
    IN
    IF ~c.ok THEN [tm |-> t1, ret |-> Error("error parsing created_at")]
    ELSE
    LET u == ParseTimestamp(parts[2])
        t2 == [t1 EXCEPT !.UpdatedAt = u.t]
    IN
    IF ~u.ok THEN [tm |-> t2, ret |-> Error("error parsing updated_at")]
    ELSE
    IF parts[3] # <<>>
    THEN LET d == ParseTimestamp(parts[3]) IN
         IF ~d.ok THEN [tm |-> t2, ret |-> Error("error parsing deleted_at")]
         ELSE [tm |-> [t2 EXCEPT !.DeletedAt = <<d.t>>], ret |-> Ok]
    ELSE [tm |-> t2, ret |-> Ok]

(* ---------------------------- Metadata ---------------------------------- *)
\* Owner is a *User: nil (empty sequence) or a User carrying its ID only
ZeroMetadata == [Owner |-> <<>>, TimeMetadata |-> ZeroTM]

\* Metadata.MarshalJSON writing the owner under the struct tag's key "owner"
MetadataMarshalJSONNested(md) ==
    LET t == md.TimeMetadata
        times == (IF ~IsZero(t.CreatedAt) THEN {<<"created_at", t.CreatedAt>>} ELSE {})
                 \cup (IF ~IsZero(t.UpdatedAt) THEN {<<"updated_at", t.UpdatedAt>>} ELSE {})
                 \cup (IF t.DeletedAt # <<>> /\ ~IsZero(t.DeletedAt[1])
                       THEN {<<"deleted_at", t.DeletedAt[1]>>} ELSE {})
        owner == IF md.Owner # <<>>
                 THEN {<<"owner", md.Owner[1].ID>>} ELSE {}
    IN  IF \E p \in times : ~JSONYearOk(p[2]) THEN JSONError
        ELSE JSONObject(owner \cup {<<p[1], RFC3339(p[2])>> : p \in times})

\* Metadata.MarshalJSON; an empty map marshals to the empty object
MetadataMarshalJSON(md) ==
    LET t == md.TimeMetadata
        times == (IF ~IsZero(t.CreatedAt) THEN {<<"created_at", t.CreatedAt>>} ELSE {})
                 \cup (IF ~IsZero(t.UpdatedAt) THEN {<<"updated_at", t.UpdatedAt>>} ELSE {})
                 \cup (IF t.DeletedAt # <<>> /\ ~IsZero(t.DeletedAt[1])
                       THEN {<<"deleted_at", t.DeletedAt[1]>>} ELSE {})
        owner == IF md.Owner # <<>>
                 THEN {<<"owner_id", md.Owner[1].ID>>} ELSE {}
    IN  IF \E p \in times : ~JSONYearOk(p[2]) THEN JSONError
        ELSE JSONObject(owner \cup {<<p[1], RFC3339(p[2])>> : p \in times})

MetadataScan1(md, x) ==
    LET s == ScanToString(x) IN
    IF s.ret.status # "ok"
    THEN [m |-> md, ret |-> Wrap(s.ret, "invalid type for Metadata scan")]
    ELSE
    LET raw == Split(Trim(s.s, {LP, RP}), COMMA) IN
    IF Len(raw) # 4
    THEN [m |-> md, ret |-> Error("invalid count for Metadata scan")]
    ELSE
    LET parts == TrimQuotes(raw)
        ownerID == uuidParse(parts[1])
    IN
    IF ownerID = NilUUID
    THEN [m |-> md, ret |-> Error("invalid owner_id for Metadata scan")]
    ELSE
    LET m1 == [md EXCEPT !.Owner = <<[ID |-> ownerID]>>]
        r == TimeMetadataScan1(m1.TimeMetadata,
                 Text(<<LP>> \o Join(SubSeq(parts, 2, 4), COMMA) \o <<RP>>))
    IN  [m |-> [m1 EXCEPT !.TimeMetadata = r.tm], ret |-> r.ret]

(* ---------------------------- UserOrganization -------------------------- *)
ZeroUO == [UserID |-> NilUUID, OrganizationID |-> NilUUID, Role |-> <<>>,
           Metadata |-> ZeroMetadata]

\* parts[0], parts[1], parts[2] and parts[3:7] are taken without a length
\* check: each panics when the list is too short (Split returns a slice
\* whose capacity is its length)
UserOrganizationScan(u, x) ==
    LET s == ScanToString(x) IN
    IF s.ret.status # "ok"
    THEN [uo |-> u, ret |-> Wrap(s.ret, "invalid type for UserOrganization scan")]
    ELSE
    LET parts == Split(Trim(s.s, {LP, RP}), COMMA)
        n == Len(parts)
        u1 == [u EXCEPT !.UserID = uuidParse(parts[1])]
    IN
    IF n < 2 THEN [uo |-> u1, ret |-> Panic("index out of range [1]")]
    ELSE
    LET u2 == [u1 EXCEPT !.OrganizationID = uuidParse(parts[2])] IN
    IF n < 3 THEN [uo |-> u2, ret |-> Panic("index out of range [2]")]
    ELSE
    LET u3 == [u2 EXCEPT !.Role = parts[3]] IN
    IF u3.UserID = NilUUID THEN [uo |-> u3, ret |-> Error("invalid user_id")]
    ELSE IF u3.OrganizationID = NilUUID
    THEN [uo |-> u3, ret |-> Error("invalid organization_id")]
    ELSE IF u3.Role = <<>> THEN [uo |-> u3, ret |-> Error("invalid user_role")]
    ELSE IF n < 7 THEN [uo |-> u3, ret |-> Panic("slice bounds out of range [:7]")]
    ELSE
    LET r == MetadataScan1(u3.Metadata,
                 Text(<<LP>> \o Join(SubSeq(parts, 4, 7), COMMA) \o <<RP>>))
        u4 == [u3 EXCEPT !.Metadata = r.m]
    IN  IF r.ret.status # "ok"
        THEN [uo |-> u4,
              ret |-> Wrap(r.ret, "error scan TimeMetadata for UserOrganization")]
        ELSE [uo |-> u4, ret |-> Ok]

(* ---------------------------- pq.StringArray ---------------------------- *)
\* a quoted element: characters up to the closing quote, a backslash taking
\* the next character literally; next is the index after the closing quote,
\* 0 when the text ends first
RECURSIVE QuotedElem(_, _, _, _)
QuotedElem(s, i, elem, escape) ==
    IF i > Len(s) THEN [elem |-> elem, next |-> 0]
    ELSE IF escape THEN QuotedElem(s, i + 1, Append(elem, s[i]), FALSE)
    ELSE IF s[i] = BS THEN QuotedElem(s, i + 1, elem, TRUE)
    ELSE IF s[i] = DQ THEN [elem |-> elem, next |-> i + 1]
    ELSE QuotedElem(s, i + 1, Append(elem, s[i]), FALSE)

\* index of the first delimiter or closing brace at or after i, 0 if none
RECURSIVE UnquotedEnd(_, _)
UnquotedEnd(s, i) ==
    IF i > Len(s) THEN 0
    ELSE IF s[i] \in {COMMA, RB} THEN i
    ELSE UnquotedEnd(s, i + 1)

ArrayError == [ok |-> FALSE, elems |-> <<>>]

\* parseArray for a one-dimensional array, from the element at index i on
RECURSIVE ArrayElement(_, _, _)
ArrayElement(s, i, elems) ==
    IF i > Len(s) THEN ArrayError
    ELSE IF s[i] = LB THEN ArrayError
    ELSE
    LET q == IF s[i] = DQ THEN QuotedElem(s, i + 1, <<>>, FALSE)
             ELSE LET e == UnquotedEnd(s, i) IN
                  [elem |-> IF e = 0 THEN <<>> ELSE SubSeq(s, i, e - 1), next |-> e]
        unquotedBad == s[i] # DQ /\ (q.elem = <<>> \/ q.elem = <<NULL>>)
    IN
    IF q.next = 0 \/ q.next > Len(s) \/ unquotedBad THEN ArrayError
    ELSE IF s[q.next] = COMMA THEN ArrayElement(s, q.next + 1, Append(elems, q.elem))
    ELSE IF s[q.next] = RB /\ q.next = Len(s)
    THEN [ok |-> TRUE, elems |-> Append(elems, q.elem)]
    ELSE ArrayError

\* pq.StringArray.Scan: the element strings of an array literal; nil cell
\* gives the nil array; a NULL element is refused
StringArrayScan(x) ==
    IF x.type = "nil" THEN [ok |-> TRUE, elems |-> <<>>]
    ELSE IF x.type \notin {"string", "[]byte"} THEN ArrayError
    ELSE
    LET s == x.val IN
    IF Len(s) < 2 \/ s[1] # LB THEN ArrayError
    ELSE IF s[2] = RB THEN [ok |-> Len(s) = 2, elems |-> <<>>]
    ELSE ArrayElement(s, 2, <<>>)

(* ---------------------------- UserOrganizations ------------------------- *)
\* the loop of UserOrganizations.Scan from element i on: each decoded
\* element is appended to the destination at once
RECURSIVE ScanElems(_, _, _)
ScanElems(dest, elems, i) ==
    IF i > Len(elems) THEN [uos |-> dest, ret |-> Ok]
    ELSE
    LET r == UserOrganizationScan(ZeroUO, Text(elems[i])) IN
    IF r.ret.status = "panic" THEN [uos |-> dest, ret |-> r.ret]
    ELSE IF r.ret.status # "ok"
    THEN [uos |-> dest,
          ret |-> Wrap(r.ret, "error parsing db result element into user organization")]
    ELSE ScanElems(Append(dest, r.uo), elems, i + 1)

\* the same loop putting each decoded element in front of the destination
RECURSIVE ScanElemsPrepend(_, _, _)
ScanElemsPrepend(dest, elems, i) ==
    IF i > Len(elems) THEN [uos |-> dest, ret |-> Ok]
    ELSE
    LET r == UserOrganizationScan(ZeroUO, Text(elems[i])) IN
    IF r.ret.status = "panic" THEN [uos |-> dest, ret |-> r.ret]
    ELSE IF r.ret.status # "ok"
    THEN [uos |-> dest,
          ret |-> Wrap(r.ret, "error parsing db result element into user organization")]
    ELSE ScanElemsPrepend(<<r.uo>> \o dest, elems, i + 1)

UserOrganizationsScanPrepend(dest, x) ==
    LET a == StringArrayScan(x) IN
    IF ~a.ok
    THEN [uos |-> dest,
          ret |-> Error("error parsing db result into string array")]
    ELSE ScanElemsPrepend(dest, a.elems, 1)

UserOrganizationsScan(dest, x) ==
    LET a == StringArrayScan(x) IN
    IF ~a.ok
    THEN [uos |-> dest,
          ret |-> Error("error parsing db result into string array")]
    ELSE ScanElems(dest, a.elems, 1)

(* ---------------------------- database output --------------------------- *)
\* a field written in double quotes
Q(f) == <<DQ>> \o f \o <<DQ>>

\* the text of a row value: ( field , field , ... )
Composite(fields) == <<LP>> \o Join(fields, COMMA) \o <<RP>>

\* the fields of a user_organization_join row, in the order of its columns
RowFields(row) ==
    <<row.organization_id, row.user_id, row.user_role, row.owner_id,
      row.created_at, row.updated_at, row.deleted_at>>

\* array text: an element is quoted when it holds a delimiter, a quote, a
\* backslash or a brace, is empty or reads NULL; inside the quotes every
\* quote and backslash gets a backslash before it
RECURSIVE Escape(_)
Escape(e) ==
    IF e = <<>> THEN <<>>
    ELSE (IF Head(e) \in {DQ, BS} THEN <<BS, Head(e)>> ELSE <<Head(e)>>)
         \o Escape(Tail(e))

ArrayElemOut(e) ==
    IF e = <<>> \/ e = <<NULL>> \/ \E i \in 1..Len(e) : e[i] \in {COMMA, DQ, BS, LB, RB}
    THEN Q(Escape(e))
    ELSE e

\* the text of array_agg(uoj) over the given element texts
ArrayOut(elems) ==
    <<LB>> \o Join([i \in 1..Len(elems) |-> ArrayElemOut(elems[i])], COMMA) \o <<RB>>

(* ---------------------------- inputs ------------------------------------ *)
Garbage == <<"garbage">>
Empty == <<>>

\* the first n fields of base, base being continued with the field more
RECURSIVE Resize(_, _, _)
Resize(base, n, more) ==
    IF n <= Len(base) THEN SubSeq(base, 1, n)
    ELSE Resize(Append(base, more), n, more)

\* texts whose field count is not the arity of base, and texts with
\* surplus or misplaced parentheses around the fields of base
Misshapen(base, more) ==
    {Text(Composite(Resize(base, n, more))) :
        n \in (1..(Len(base) + MaxExtra)) \ {Len(base)}}
    \cup {Text(<<LP>> \o Composite(base) \o <<RP>>),
          Text(<<RP>> \o Join(base, COMMA) \o <<LP>>),
          Text(Join(base, COMMA)),
          Text(<<>>),
          Bytes(Composite(base)),
          Int64Cell}

TMFieldLists ==
    {<<c, u, d>> :
        c \in {<<TsA>>, <<TsZero>>, <<TsBC>>},
        u \in {Q(<<TsB>>), <<TsZero>>},
        d \in {Empty, Q(Empty), <<TsA>>, <<TsZero>>, <<TsBC>>}}
    \cup {<<Garbage, <<TsB>>, Empty>>,
          <<<<TsA>>, Garbage, <<TsA>>>>,
          <<<<TsB>>, <<TsB>>, Garbage>>,
          <<Q(<<TsB>>), <<TsA>>, Q(<<TsB>>)>>}

TMInputs ==
    {Text(Composite(f)) : f \in TMFieldLists}
    \cup Misshapen(<<<<TsA>>, <<TsB>>, Empty>>, <<TsA>>)

MetadataFieldLists ==
    {<<o, c, u, Q(Empty)>> :
        o \in {<<UuidNil>>, <<UuidA>>, <<UrnUuidB>>},
        c \in {<<TsA>>, <<TsZero>>, <<TsBC>>},
        u \in {Q(<<TsB>>), <<TsZero>>}}
    \cup {<<o, <<TsA>>, <<TsB>>, Empty>> : o \in {Q(<<UuidB>>), Empty, Garbage}}
    \cup {<<<<UuidA>>, <<TsA>>, <<TsB>>, d>> : d \in {Empty, <<TsB>>, Garbage}}
    \cup {<<<<UuidA>>, Garbage, <<TsB>>, Empty>>,
          <<<<UuidB>>, <<TsB>>, Garbage, <<TsA>>>>}

MetadataInputs ==
    {Text(Composite(f)) : f \in MetadataFieldLists}
    \cup Misshapen(<<<<UuidA>>, <<TsA>>, <<TsB>>, Empty>>, <<TsA>>)

\* rows of user_organization_join as the database writes them
UOJRows ==
    {[organization_id |-> <<UuidA>>, user_id |-> <<UuidB>>, user_role |-> r,
      owner_id |-> <<UuidNil>>, created_at |-> Q(<<TsA>>),
      updated_at |-> Q(<<TsB>>), deleted_at |-> d] :
        r \in {<<"user">>, Q(<<"org admin">>), Empty, Q(Empty)},
        d \in {Empty, Q(<<TsB>>)}}
    \cup {[organization_id |-> o, user_id |-> u, user_role |-> <<"user">>,
           owner_id |-> w, created_at |-> Q(<<TsA>>),
           updated_at |-> Q(<<TsA>>), deleted_at |-> Empty] :
        o \in {<<UuidNil>>, Garbage}, u \in {<<UuidNil>>, Q(<<UuidA>>), Empty},
        w \in {<<UuidA>>, Empty}}
    \cup {[organization_id |-> <<UuidB>>, user_id |-> <<UuidB>>,
           user_role |-> <<"admin">>, owner_id |-> <<UuidB>>,
           created_at |-> c, updated_at |-> <<TsB>>, deleted_at |-> d] :
        c \in {<<TsB>>, Garbage}, d \in {Empty, Garbage}}

UOBase ==
    <<<<UuidA>>, <<UuidB>>, <<"user">>, <<UuidNil>>, Q(<<TsA>>), Q(<<TsB>>), Empty>>

UOInputs ==
    {Text(Composite(RowFields(row))) : row \in UOJRows}
    \cup Misshapen(UOBase, <<TsA>>)

\* element texts an array is made of: two rows that decode, one whose
\* created_at does not, and a text that is too short
UOElems ==
    {Composite(UOBase),
     Composite(<<<<UuidB>>, <<UuidNil>>, Q(<<"org admin">>), <<UuidA>>,
                 Q(<<TsB>>), Q(<<TsB>>), Q(<<TsB>>)>>),
     Composite(<<<<UuidA>>, <<UuidB>>, <<"user">>, <<UuidNil>>,
                 Garbage, Q(<<TsB>>), Empty>>),
     Composite(<<<<UuidA>>, <<UuidB>>, <<"user">>>>)}

RECURSIVE SeqsUpTo(_, _)
SeqsUpTo(S, n) ==
    IF n = 0 THEN {<<>>}
    ELSE LET shorter == SeqsUpTo(S, n - 1)
         IN  shorter \cup {Append(q, e) : q \in shorter, e \in S}

UOElemSeqs == SeqsUpTo(UOElems, MaxElems)

UOSInputs ==
    {Text(ArrayOut(es)) : es \in UOElemSeqs}
    \cup {Bytes(ArrayOut(<<Composite(UOBase)>>)),
          Text(<<LB, NULL, RB>>),
          Text(<<LB>> \o Q(Escape(Composite(UOBase)))),
          Text(Composite(UOBase)),
          [type |-> "nil", val |-> <<>>],
          Int64Cell}

\* elements of the array text x, by the count of its top-level delimiters
ElemCount(x) == Len(StringArrayScan(x).elems)

(* ---------------------------- the program ------------------------------- *)
Kinds == {"TimeMetadata", "Metadata", "UserOrganization", "UserOrganizations"}

Snapshot == [tm |-> tm, m |-> m, uo |-> uo, uos |-> uos]

Init ==
    /\ kind \in Kinds
    /\ tm = ZeroTM
    /\ m = ZeroMetadata
    /\ uo = ZeroUO
    /\ uos = <<>>
    /\ op = "new"
    /\ src = Text(<<>>)
    /\ pre = [tm |-> ZeroTM, m |-> ZeroMetadata, uo |-> ZeroUO, uos |-> <<>>]
    /\ ret = Ok
    /\ out = NoJSON

\* tm.Scan1(x)
ScanTimeMetadata ==
    /\ kind = "TimeMetadata"
    /\ ret.status # "panic"
    /\ \E x \in TMInputs :
         LET r == TimeMetadataScan1(tm, x) IN
         /\ tm' = r.tm
         /\ ret' = r.ret
         /\ src' = x
    /\ op' = "TimeMetadata.Scan1"
    /\ pre' = Snapshot
    /\ out' = NoJSON
    /\ UNCHANGED <<kind, m, uo, uos>>

\* tm.MarshalJSON()
MarshalTimeMetadata ==
    /\ kind = "TimeMetadata"
    /\ ret.status # "panic"
    /\ out' = TimeMetadataMarshalJSON(tm)
    /\ UNCHANGED <<kind, tm, m, uo, uos, op, src, pre, ret>>

\* m.Scan1(x)
ScanMetadata ==
    /\ kind = "Metadata"
    /\ ret.status # "panic"
    /\ \E x \in MetadataInputs :
         LET r == MetadataScan1(m, x) IN
         /\ m' = r.m
         /\ ret' = r.ret
         /\ src' = x
    /\ op' = "Metadata.Scan1"
    /\ pre' = Snapshot
    /\ out' = NoJSON
    /\ UNCHANGED <<kind, tm, uo, uos>>

\* m.MarshalJSON()
MarshalMetadata ==
    /\ kind = "Metadata"
    /\ ret.status # "panic"
    /\ out' = MetadataMarshalJSON(m)
    /\ UNCHANGED <<kind, tm, m, uo, uos, op, src, pre, ret>>

\* uo.Scan(x); a panic ends the program
ScanUserOrganization ==
    /\ kind = "UserOrganization"
    /\ ret.status # "panic"
    /\ \E x \in UOInputs :
         LET r == UserOrganizationScan(uo, x) IN
         /\ uo' = r.uo
         /\ ret' = r.ret
         /\ src' = x
    /\ op' = "UserOrganization.Scan"
    /\ pre' = Snapshot
    /\ out' = NoJSON
    /\ UNCHANGED <<kind, tm, m, uos>>

\* uos.Scan(x); a panic ends the program
ScanUserOrganizations ==
    /\ kind = "UserOrganizations"
    /\ ret.status # "panic"
    /\ \E x \in UOSInputs :
         /\ Len(uos) + ElemCount(x) <= MaxDest
         /\ LET r == UserOrganizationsScan(uos, x) IN
            /\ uos' = r.uos
            /\ ret' = r.ret
            /\ src' = x
    /\ op' = "UserOrganizations.Scan"
    /\ pre' = Snapshot
    /\ out' = NoJSON
    /\ UNCHANGED <<kind, tm, m, uo>>

Next ==
    \/ ScanTimeMetadata
    \/ MarshalTimeMetadata
    \/ ScanMetadata
    \/ MarshalMetadata
    \/ ScanUserOrganization
    \/ ScanUserOrganizations

Spec == Init /\ [][Next]_vars

(* ---------------------------- properties -------------------------------- *)
IsText(x) == x.type \in {"string", "[]byte"}

CompositeScans == {"TimeMetadata.Scan1", "Metadata.Scan1", "UserOrganization.Scan"}

\* fields the decoder of an operation expects
Arity(o) ==
    CASE o = "TimeMetadata.Scan1" -> 3
      [] o = "Metadata.Scan1" -> 4
      [] o = "UserOrganization.Scan" -> 7

\* comma-separated fields of a text
FieldCount(s) == 1 + Cardinality({i \in 1..Len(s) : s[i] = COMMA})

\* the destination of the last call, now and before the call
Dest ==
    CASE kind = "TimeMetadata" -> tm
      [] kind = "Metadata" -> m
      [] kind = "UserOrganization" -> uo
      [] kind = "UserOrganizations" -> uos

PreDest ==
    CASE kind = "TimeMetadata" -> pre.tm
      [] kind = "Metadata" -> pre.m
      [] kind = "UserOrganization" -> pre.uo
      [] kind = "UserOrganizations" -> pre.uos

Fresh ==
    CASE kind = "TimeMetadata" -> ZeroTM
      [] kind = "Metadata" -> ZeroMetadata
      [] kind = "UserOrganization" -> ZeroUO
      [] kind = "UserOrganizations" -> <<>>

\* the Scan method o called on a destination d with the cell x
Decode(o, d, x) ==
    CASE o = "TimeMetadata.Scan1" ->
           LET r == TimeMetadataScan1(d, x) IN [dst |-> r.tm, ret |-> r.ret]
      [] o = "Metadata.Scan1" ->
           LET r == MetadataScan1(d, x) IN [dst |-> r.m, ret |-> r.ret]
      [] o = "UserOrganization.Scan" ->
           LET r == UserOrganizationScan(d, x) IN [dst |-> r.uo, ret |-> r.ret]
      [] o = "UserOrganizations.Scan" ->
           LET r == UserOrganizationsScan(d, x) IN [dst |-> r.uos, ret |-> r.ret]

\* the composite grammar: one leading "(" and one trailing ")" around the
\* fields, a field optionally inside one pair of double quotes
StripOnePair(s) ==
    LET a == IF s # <<>> /\ Head(s) = LP THEN Tail(s) ELSE s
    IN  IF a # <<>> /\ a[Len(a)] = RP THEN SubSeq(a, 1, Len(a) - 1) ELSE a

GrammarFields(s) == Split(StripOnePair(s), COMMA)

Unquote(f) ==
    IF Len(f) >= 2 /\ Head(f) = DQ /\ f[Len(f)] = DQ
    THEN SubSeq(f, 2, Len(f) - 1)
    ELSE f

\* a parenthesis is left at an end of the text once one pair is removed
ExtraParen(s) ==
    LET r == StripOnePair(s)
    IN  r # <<>> /\ (Head(r) \in {LP, RP} \/ r[Len(r)] \in {LP, RP})

\* fields holding a valid timestamp or identifier, bare or quoted
ValidTsFields == {<<t>> : t \in TsTexts} \cup {Q(<<t>>) : t \in TsTexts}
EmptyFields == {Empty, Q(Empty)}
ValidUuidFields == {<<u>> : u \in UuidTexts} \cup {Q(<<u>>) : u \in UuidTexts}

\* the instant a valid timestamp field denotes, and its JSON text
InstantOf(f) == PgInstant(Unquote(f)[1])
JSONTimeOf(f) ==
    LET t == Unquote(f)[1] IN
    CASE t = TsZero -> "0001-01-01T00:00:00Z"
      [] t = TsA -> "2024-01-01T00:00:00Z"
      [] t = TsB -> "2024-01-02T00:00:00Z"
      [] t = TsBC -> "-0043-03-15T00:00:00Z"

\* a timestamp field JSON can carry and the encoders do not drop: not the
\* zero instant, year within 0..9999
Encoded(f) == ~IsZero(InstantOf(f)) /\ JSONYearOk(InstantOf(f))

\* the identifier a valid identifier field denotes
UuidValueOf(f) ==
    LET u == Unquote(f)[1] IN IF u = UrnUuidB THEN UuidB ELSE u

\* C1: a composite text whose comma-separated field count differs from the
\* decoder's arity (3, 4 or 7) makes the decoder return an error value; it
\* neither crashes nor succeeds on a truncated or padded field list.
C1_FieldCountMismatchIsError ==
    (op \in CompositeScans /\ IsText(src) /\ FieldCount(src.val) # Arity(op))
        => ret.status = "error"

\* C2: when UserOrganizations.Scan returns an error the destination sequence
\* is what it was before the call.
C2_FailedArrayScanKeepsDest ==
    (op = "UserOrganizations.Scan" /\ ret.status = "error") => uos = pre.uos

\* C3: when a composite decoder returns an error every field of the
\* destination has its value from before the call.
C3_FailedScanKeepsDest ==
    (op \in CompositeScans /\ ret.status = "error") => Dest = PreDest

\* C4: an array of N elements that each decode, scanned into an empty
\* destination, succeeds and leaves exactly the N decoded elements in
\* source order.
C4Case(es) ==
    /\ op = "UserOrganizations.Scan"
    /\ pre.uos = <<>>
    /\ src = Text(ArrayOut(es))
    /\ \A i \in 1..Len(es) : UserOrganizationScan(ZeroUO, Text(es[i])).ret = Ok

C4_ArrayDecodesAllInOrder ==
    \A es \in UOElemSeqs :
        C4Case(es) =>
            /\ ret = Ok
            /\ Len(uos) = Len(es)
            /\ \A i \in 1..Len(es) :
                 uos[i] = UserOrganizationScan(ZeroUO, Text(es[i])).uo

C4_Witness ==
    \E es \in UOElemSeqs :
        C4Case(es) /\ Len(es) >= 2 /\ es[1] # es[2] /\ Len(uos) = Len(es)

\* C5 as stated: for all valid c and u and d valid or empty, Scan1 of
\* (c,u,d) into a fresh value then MarshalJSON gives created_at = c,
\* updated_at = u, deleted_at = d when d is not empty and no deleted_at key
\* (and a nil DeletedAt) when d is empty.
C5Case(c, u, d) ==
    /\ op = "TimeMetadata.Scan1"
    /\ pre.tm = ZeroTM
    /\ IsText(src)
    /\ src.val = Composite(<<c, u, d>>)
    /\ out.status # "none"

C5Then(c, u, d) ==
    /\ ret = Ok
    /\ out.status = "object"
    /\ Keys(out) = {"created_at", "updated_at"}
                   \cup (IF d \in EmptyFields THEN {} ELSE {"deleted_at"})
    /\ Value(out, "created_at") = JSONTimeOf(c)
    /\ Value(out, "updated_at") = JSONTimeOf(u)
    /\ d \notin EmptyFields => Value(out, "deleted_at") = JSONTimeOf(d)
    /\ d \in EmptyFields => tm.DeletedAt = <<>>

C5_RoundTripEveryInstant ==
    \A c \in ValidTsFields, u \in ValidTsFields, d \in ValidTsFields \cup EmptyFields :
        C5Case(c, u, d) => C5Then(c, u, d)

\* C5 amended: the same for c, u and a non-empty d that are not the zero
\* instant and lie in the years 0..9999.
C5_RoundTripEncodedInstants ==
    \A c \in ValidTsFields, u \in ValidTsFields, d \in ValidTsFields \cup EmptyFields :
        (C5Case(c, u, d) /\ Encoded(c) /\ Encoded(u)
            /\ (d \notin EmptyFields => Encoded(d)))
        => C5Then(c, u, d)

C5_Witness ==
    /\ C5Case(<<TsA>>, Q(<<TsB>>), <<TsA>>)
    /\ out.status = "object"
    /\ "deleted_at" \in Keys(out)

\* C6 as stated: for every valid o, c and u, Scan1 of (o,c,u,"") into a
\* fresh value succeeds with Owner.ID = o, CreatedAt = c, UpdatedAt = u and
\* DeletedAt nil, and MarshalJSON of it has exactly the keys owner_id,
\* created_at and updated_at.
C6Case(o, c, u) ==
    /\ op = "Metadata.Scan1"
    /\ pre.m = ZeroMetadata
    /\ IsText(src)
    /\ src.val = Composite(<<o, c, u, Q(Empty)>>)

C6Decoded(o, c, u) ==
    /\ ret = Ok
    /\ m.Owner = <<[ID |-> UuidValueOf(o)]>>
    /\ m.TimeMetadata.CreatedAt = InstantOf(c)
    /\ m.TimeMetadata.UpdatedAt = InstantOf(u)
    /\ m.TimeMetadata.DeletedAt = <<>>

C6Encoded ==
    /\ out.status = "object"
    /\ Keys(out) = {"owner_id", "created_at", "updated_at"}

C6_OwnerMetadataEveryInstant ==
    \A o \in ValidUuidFields, c \in ValidTsFields, u \in ValidTsFields :
        C6Case(o, c, u) =>
            /\ C6Decoded(o, c, u)
            /\ out.status # "none" => C6Encoded

\* C6 amended: the decoded value is as stated for every valid o, c and u;
\* the keys are exactly owner_id, created_at and updated_at when c and u
\* are not the zero instant and lie in the years 0..9999.
C6_OwnerMetadataEncodedInstants ==
    \A o \in ValidUuidFields, c \in ValidTsFields, u \in ValidTsFields :
        C6Case(o, c, u) =>
            /\ C6Decoded(o, c, u)
            /\ (out.status # "none" /\ Encoded(c) /\ Encoded(u)) => C6Encoded

C6_Witness ==
    /\ C6Case(<<UrnUuidB>>, <<TsA>>, Q(<<TsB>>))
    /\ out.status = "object"

\* C7: a 7-field membership composite with valid user and organization ids
\* and a role that is empty once its optional surrounding quotes are
\* removed is refused with the invalid-role error.
C7_EmptyRoleRejected ==
    (op = "UserOrganization.Scan" /\ IsText(src)
        /\ LET f == GrammarFields(src.val) IN
           /\ Len(f) = 7
           /\ f[1] \in {<<u>> : u \in UuidTexts}
           /\ f[2] \in {<<u>> : u \in UuidTexts}
           /\ Unquote(f[3]) = <<>>)
    => (ret.status = "error" /\ ret.err = <<"invalid user_role">>)

\* C8: after a successful decode of a user_organization_join row, UserID is
\* the row's user_id, OrganizationID its organization_id, Role its user_role
\* and Metadata its last four columns.
C8_FieldsFollowColumnOrder ==
    \A row \in UOJRows :
        (op = "UserOrganization.Scan" /\ ret = Ok
            /\ src = Text(Composite(RowFields(row))))
        => /\ uo.UserID = UuidValueOf(row.user_id)
           /\ uo.OrganizationID = UuidValueOf(row.organization_id)
           /\ uo.Role = Unquote(row.user_role)
           /\ uo.Metadata.Owner = <<[ID |-> UuidValueOf(row.owner_id)]>>
           /\ uo.Metadata.TimeMetadata.CreatedAt = InstantOf(row.created_at)
           /\ uo.Metadata.TimeMetadata.UpdatedAt = InstantOf(row.updated_at)

\* C9: a successful TimeMetadata.Scan1, Metadata.Scan1 or
\* UserOrganizations.Scan leaves the destination equal to what a fresh
\* destination holds after decoding the same input.
C9_ResultDependsOnInputOnly ==
    (op \in {"TimeMetadata.Scan1", "Metadata.Scan1", "UserOrganizations.Scan"}
        /\ ret = Ok)
    => Dest = Decode(op, Fresh, src).dst

\* C10: a text that still has a parenthesis at either end after one leading
\* "(" and one trailing ")" are removed is not decoded as if it were the
\* text with a single pair around the same fields.
C10_OneParenPairStripped ==
    (op \in CompositeScans /\ IsText(src) /\ ExtraParen(src.val))
    => ~(/\ ret = Ok
         /\ Dest = Decode(op, PreDest,
                       Text(<<LP>> \o Trim(src.val, {LP, RP}) \o <<RP>>)).dst)

====
